---- MODULE Spec2Model ----
(***************************************************************************)
(* Model of finance_manager.py: the SQLite-backed transaction store        *)
(* (DatabaseManager) and the handlers of FinanceApp that query it, fill    *)
(* the transaction table, compute the running balance and the summary.     *)
(*                                                                         *)
(* Text is modelled as sequences of character codes (Chars), so that       *)
(* parsing (strptime, float), SQLite's TEXT comparison and formatting are  *)
(* computed the way the code computes them.  Amounts are whole dollars.    *)
(***************************************************************************)
EXTENDS Integers, Sequences, FiniteSets, TLC

\* Number of INSERTs performed in one behaviour.
MaxInserts == 2

----------------------------------------------------------------------------
\* Text values that the entry fields can hold, as character codes.

Chars(s) ==
  CASE s = ""           -> << >>
    [] s = "2024-9-30"  -> <<50, 48, 50, 52, 45, 57, 45, 51, 48>>
    [] s = "2024-10-01" -> <<50, 48, 50, 52, 45, 49, 48, 45, 48, 49>>
    [] s = "2024-13-01" -> <<50, 48, 50, 52, 45, 49, 51, 45, 48, 49>>
    [] s = "abc"        -> <<97, 98, 99>>
    [] s = "0"          -> <<48>>
    [] s = "-50"        -> <<45, 53, 48>>
    [] s = "100"        -> <<49, 48, 48>>
    [] s = "400"        -> <<52, 48, 48>>

\* What the user leaves in the date, type, category, amount and description
\* fields of the form: two dates with an Income of 400 or an Expense of 100
\* or 400, the category being the one _update_categories selects for the
\* type, and contents that fail one or every test of add_transaction_handler.
FormInputs ==
  ({"2024-9-30", "2024-10-01"}
     \X { <<<<"Income", "Salary">>, "400">>, <<<<"Expense", "Rent">>, "100">>,
          <<<<"Expense", "Rent">>, "400">> } \X {""})
  \cup { <<"2024-13-01", <<<<"Income", "Salary">>, "100">>, "">>,
         <<"2024-9-30", <<<<"Expense", "">>, "400">>, "">>,
         <<"2024-10-01", <<<<"Income", "Salary">>, "0">>, "">>,
         <<"2024-10-01", <<<<"Expense", "Rent">>, "-50">>, "">>,
         <<"2024-9-30", <<<<"Income", "Salary">>, "abc">>, "">>,
         <<"2024-13-01", <<<<"Expense", "">>, "abc">>, "">> }

\* The fields of one form content.
date_of(in) == in[1]
type_of(in) == in[2][1][1]
category_of(in) == in[2][1][2]
amount_of(in) == in[2][2]
description_of(in) == in[3]

FilterTypes      == {"All", "Income", "Expense"}
\* What the user leaves in the start date, end date and type filter fields.
FilterInputs ==
  { <<"", "", "All">>, <<"2024-13-01", "", "All">>,
    <<"2024-10-01", "2024-9-30", "All">>, <<"2024-10-01", "", "Income">>,
    <<"", "2024-9-30", "Expense">> }

IsDigit(c) == c >= 48 /\ c <= 57
DigitVal(c) == c - 48

RECURSIVE ToInt(_)
ToInt(ds) ==
  IF ds = << >> THEN 0
  ELSE 10 * ToInt(SubSeq(ds, 1, Len(ds) - 1)) + DigitVal(ds[Len(ds)])

IsLeap(y) == (y % 4 = 0 /\ y % 100 # 0) \/ y % 400 = 0

DaysInMonth(y, m) ==
  IF m = 2 THEN (IF IsLeap(y) THEN 29 ELSE 28)
  ELSE IF m \in {4, 6, 9, 11} THEN 30 ELSE 31

DaysBeforeMonth(y, m) ==
  <<0, 31, 59, 90, 120, 151, 181, 212, 243, 273, 304, 334>>[m]
    + (IF m > 2 /\ IsLeap(y) THEN 1 ELSE 0)

\* Proleptic Gregorian ordinal of a calendar date.
Ordinal(y, m, d) ==
  365 * (y - 1) + ((y - 1) \div 4) - ((y - 1) \div 100) + ((y - 1) \div 400)
    + DaysBeforeMonth(y, m) + d

\* The three directives of "%Y-%m-%d" as the regular expressions strptime
\* builds for them: \d\d\d\d, 1[0-2]|0[1-9]|[1-9] and
\* 3[01]|[12]\d|0[1-9]|[1-9]| [1-9].
YearField(f) == Len(f) = 4 /\ \A i \in 1..4 : IsDigit(f[i])

MonthField(f) ==
  \/ Len(f) = 1 /\ f[1] >= 49 /\ f[1] <= 57
  \/ Len(f) = 2 /\ f[1] = 49 /\ f[2] >= 48 /\ f[2] <= 50
  \/ Len(f) = 2 /\ f[1] = 48 /\ f[2] >= 49 /\ f[2] <= 57

DayField(f) ==
  \/ Len(f) = 1 /\ f[1] >= 49 /\ f[1] <= 57
  \/ Len(f) = 2 /\ f[1] = 51 /\ f[2] \in {48, 49}
  \/ Len(f) = 2 /\ f[1] \in {49, 50} /\ IsDigit(f[2])
  \/ Len(f) = 2 /\ f[1] \in {48, 32} /\ f[2] >= 49 /\ f[2] <= 57

\* datetime(y, m, d): the date must exist (year 1 or later, day within the
\* month).  ok = FALSE stands for ValueError.
strptime_date(y, m, d) ==
  IF y >= 1 /\ d <= DaysInMonth(y, m)
  THEN [ok |-> TRUE, ordinal |-> Ordinal(y, m, d)]
  ELSE [ok |-> FALSE, ordinal |-> 0]

strptime_fields(yf, mf, df) ==
  IF YearField(yf) /\ MonthField(mf) /\ DayField(df)
  THEN strptime_date(ToInt(yf), ToInt(mf), ToInt(SelectSeq(df, IsDigit)))
  ELSE [ok |-> FALSE, ordinal |-> 0]

\* cs holds "-" at p1 and p2 and nowhere else.
strptime_split(cs, p1, p2) ==
  strptime_fields(SubSeq(cs, 1, p1 - 1), SubSeq(cs, p1 + 1, p2 - 1),
                  SubSeq(cs, p2 + 1, Len(cs)))

strptime_seps(cs, seps) ==
  IF Cardinality(seps) = 2
  THEN strptime_split(cs, CHOOSE i \in seps : \A j \in seps : i <= j,
                      CHOOSE i \in seps : \A j \in seps : j <= i)
  ELSE [ok |-> FALSE, ordinal |-> 0]

strptime_chars(cs) == strptime_seps(cs, {i \in 1..Len(cs) : cs[i] = 45})

\* datetime.strptime(s, "%Y-%m-%d"): the whole text must match
\* year "-" month "-" day, none of which holds a "-".
strptime(s) == strptime_chars(Chars(s))

float_digits(ds, neg) ==
  IF Len(ds) > 0 /\ \A i \in 1..Len(ds) : IsDigit(ds[i])
  THEN [ok |-> TRUE, value |-> IF neg THEN 0 - ToInt(ds) ELSE ToInt(ds)]
  ELSE [ok |-> FALSE, value |-> 0]

float_chars(cs) ==
  IF Len(cs) > 0 /\ cs[1] = 45 THEN float_digits(Tail(cs), TRUE)
  ELSE float_digits(cs, FALSE)

\* float(s) for the amount entry: an optional sign and digits; ok = FALSE
\* stands for ValueError.
float(s) == float_chars(Chars(s))

\* SQLite's BINARY collation on TEXT: bytewise, a proper prefix sorts first.
RECURSIVE TextLess(_, _)
TextLess(a, b) ==
  IF b = << >> THEN FALSE
  ELSE IF a = << >> THEN TRUE
  ELSE IF a[1] # b[1] THEN a[1] < b[1]
  ELSE TextLess(Tail(a), Tail(b))

TextLeq(a, b) == a = b \/ TextLess(a, b)

----------------------------------------------------------------------------
VARIABLES
  store,              \* rows of table transactions
  inserted,           \* INSERTs performed so far; also numbers the rows (uid)
  issued,             \* history: the ids assigned by the INSERTs, in order
  deleted,            \* history: uids of rows removed by DELETE
  filter_start_date,  \* self.filter_start_date
  filter_end_date,    \* self.filter_end_date
  filter_type,        \* self.filter_type
  tree,               \* rows of the Treeview
  chart,              \* DataFrame last handed to the two charts
  category_summary,   \* what the category bar chart was last drawn from
  summary_labels,     \* figures shown by the three summary labels
  messagebox,         \* titles of the dialogs shown by the last handler
  last                \* history: what the last handler did

vars == <<store, inserted, issued, deleted, filter_start_date, filter_end_date,
          filter_type, tree, chart, category_summary, summary_labels,
          messagebox, last>>

----------------------------------------------------------------------------
\* DatabaseManager

\* INSERT INTO transactions: id is INTEGER PRIMARY KEY without AUTOINCREMENT,
\* so SQLite gives the new row one more than the largest id in the table
\* (1 for an empty table).
NewRowId(st) ==
  IF st = {} THEN 1
  ELSE (CHOOSE r \in st : \A q \in st : q.id <= r.id).id + 1

add_transaction(st, date, type, category, amount, description, uid) ==
  st \cup {[id |-> NewRowId(st), date |-> date, type |-> type,
            category |-> category, amount |-> amount,
            description |-> description, uid |-> uid]}

\* ORDER BY date, id
RowBefore(r, q) ==
  \/ TextLess(Chars(r.date), Chars(q.date))
  \/ r.date = q.date /\ r.id < q.id

RECURSIVE OrderBy(_)
OrderFrom(S, first) == <<first>> \o OrderBy(S \ {first})

OrderBy(S) ==
  IF S = {} THEN << >>
  ELSE OrderFrom(S, CHOOSE r \in S : \A q \in S \ {r} : RowBefore(r, q))

\* get_all_transactions with the upper date bound exclusive.
get_all_transactions_exclusive_end(st, start_date, end_date, trans_type, category) ==
  OrderBy({r \in st :
    /\ start_date # "" => TextLeq(Chars(start_date), Chars(r.date))
    /\ end_date # "" => TextLess(Chars(r.date), Chars(end_date))
    /\ (trans_type # "" /\ trans_type # "All") => r.type = trans_type
    /\ (category # "" /\ category # "All") => r.category = category})

\* None and "" are both falsy in the four "if" tests; "" stands for None.
get_all_transactions(st, start_date, end_date, trans_type, category) ==
  OrderBy({r \in st :
    /\ start_date # "" => TextLeq(Chars(start_date), Chars(r.date))
    /\ end_date # "" => TextLeq(Chars(r.date), Chars(end_date))
    /\ (trans_type # "" /\ trans_type # "All") => r.type = trans_type
    /\ (category # "" /\ category # "All") => r.category = category})

\* delete_transaction that removes nothing.
delete_transaction_noop(st, transaction_id) == st

\* DELETE FROM transactions WHERE id = ?; the statement succeeds whether or
\* not a row matches, and the method returns True.
delete_transaction(st, transaction_id) ==
  {r \in st : r.id # transaction_id}

----------------------------------------------------------------------------
\* FinanceApp

RECURSIVE Digits(_)
Digits(n) ==
  IF n < 10 THEN <<48 + n>> ELSE Digits(n \div 10) \o <<48 + (n % 10)>>

RECURSIVE Grouped(_)
Grouped(ds) ==
  IF Len(ds) <= 3 THEN ds
  ELSE Grouped(SubSeq(ds, 1, Len(ds) - 3)) \o <<44>>
         \o SubSeq(ds, Len(ds) - 2, Len(ds))

\* f"${amount:,.2f}" for a whole amount
formatted_amount(amount) ==
  IF amount < 0
  THEN <<36, 45>> \o Grouped(Digits(0 - amount)) \o <<46, 48, 48>>
  ELSE <<36>> \o Grouped(Digits(amount)) \o <<46, 48, 48>>

\* The Treeview rows inserted for the queried transactions.
tree_rows(transactions) ==
  [i \in 1..Len(transactions) |->
     [id |-> transactions[i].id,
      date |-> transactions[i].date,
      type |-> transactions[i].type,
      category |-> transactions[i].category,
      amount |-> formatted_amount(transactions[i].amount),
      description |-> transactions[i].description,
      uid |-> transactions[i].uid]]

\* load_transactions: a filter date that does not parse shows "Filter Error"
\* and returns before the Treeview is touched; otherwise the Treeview is
\* cleared and refilled from the query.
load_transactions(st, start_date, end_date, trans_type, old_tree) ==
  IF \/ start_date # "" /\ ~strptime(start_date).ok
     \/ end_date # "" /\ ~strptime(end_date).ok
  THEN [tree |-> old_tree, messages |-> <<"Filter Error">>, listed |-> FALSE]
  ELSE [tree |-> tree_rows(get_all_transactions(st, start_date, end_date,
                                                 trans_type, "")),
        messages |-> << >>, listed |-> TRUE]

\* pd.to_datetime on a stored date text
to_datetime(s) == strptime(s).ordinal

\* x placed after the rows of the sorted frame that are not later than it.
sort_insert(sorted, x) ==
  SelectSeq(sorted, LAMBDA r : r.date <= x.date) \o <<x>>
    \o SelectSeq(sorted, LAMBDA r : r.date > x.date)

\* df.sort_values(by='date'): rows in ascending date, rows of one date in
\* the order they had (the sort keeps ties in place for frames this small).
RECURSIVE sort_values(_)
sort_values(df) ==
  IF df = << >> THEN << >>
  ELSE sort_insert(sort_values(SubSeq(df, 1, Len(df) - 1)), df[Len(df)])

with_balance(x, balance) ==
  [id |-> x.id, date |-> x.date, type |-> x.type, category |-> x.category,
   amount |-> x.amount, description |-> x.description, uid |-> x.uid,
   signed_amount |-> x.signed_amount, running_balance |-> balance]

cumsum_append(before, x) ==
  Append(before,
         with_balance(x, (IF before = << >> THEN 0
                          ELSE before[Len(before)].running_balance)
                           + x.signed_amount))

\* df['signed_amount'].cumsum()
RECURSIVE cumsum(_)
cumsum(df) ==
  IF df = << >> THEN << >>
  ELSE cumsum_append(cumsum(SubSeq(df, 1, Len(df) - 1)), df[Len(df)])

\* plot_transactions with for_plots ignored: the filters always apply.
plot_transactions_filtered(st, start_date, end_date, trans_type, for_plots) ==
  get_all_transactions(st, start_date, end_date, trans_type, "")

\* The rows queried by _prepare_data_for_plots; start_date, end_date and
\* trans_type are the filter variables, read only when for_plots.
plot_transactions(st, start_date, end_date, trans_type, for_plots) ==
  IF for_plots
  THEN get_all_transactions(st, start_date, end_date, trans_type, "")
  ELSE get_all_transactions(st, "", "", "All", "")

\* The DataFrame built from the queried rows, with the date parsed and the
\* signed_amount column.
data_frame(transactions) ==
  [i \in 1..Len(transactions) |->
     [id |-> transactions[i].id,
      date |-> to_datetime(transactions[i].date),
      type |-> transactions[i].type,
      category |-> transactions[i].category,
      amount |-> transactions[i].amount,
      description |-> transactions[i].description,
      uid |-> transactions[i].uid,
      signed_amount |-> IF transactions[i].type = "Expense"
                        THEN 0 - transactions[i].amount
                        ELSE transactions[i].amount]]

\* _prepare_data_for_plots: the DataFrame, as the sequence of its rows; the
\* empty DataFrame is << >>.
prepare_data_for_plots(st, start_date, end_date, trans_type, for_plots) ==
  cumsum(sort_values(data_frame(
    plot_transactions(st, start_date, end_date, trans_type, for_plots))))

RECURSIVE SumAmount(_, _)
SumAmount(df, type) ==
  IF df = << >> THEN 0
  ELSE SumAmount(Tail(df), type)
         + (IF Head(df).type = type THEN Head(df).amount ELSE 0)

summary_stats(total_income, total_expense) ==
  [total_income |-> total_income, total_expense |-> total_expense,
   net_worth |-> total_income - total_expense]

summary_of(df) ==
  IF df = << >> THEN summary_stats(0, 0)
  ELSE summary_stats(SumAmount(df, "Income"), SumAmount(df, "Expense"))

calculate_summary_stats(st, start_date, end_date, trans_type) ==
  summary_of(prepare_data_for_plots(st, start_date, end_date, trans_type, FALSE))

\* update_plots: the DataFrame the charts are drawn from (none when empty)
update_plots(st, start_date, end_date, trans_type) ==
  prepare_data_for_plots(st, start_date, end_date, trans_type, TRUE)

top_n == 5

\* The categories of the rows of one type.
categories_of(df, type) ==
  {df[i].category : i \in {j \in 1..Len(df) : df[j].type = type}}

RECURSIVE category_sum(_, _, _)
category_sum(df, type, c) ==
  IF df = << >> THEN 0
  ELSE category_sum(Tail(df), type, c)
         + (IF Head(df).type = type /\ Head(df).category = c
            THEN Head(df).amount ELSE 0)

\* df[df['type'] == type].groupby('category')['amount'].sum(): one entry per
\* category of the rows of that type.  groupby lists the entries by category
\* name, whatever the order of the rows; here the Series is the set of its
\* entries, since the sort that follows decides their order.
groupby_sum(df, type) ==
  {[category |-> c, amount |-> category_sum(df, type, c)] :
     c \in categories_of(df, type)}

largest(series) == {m \in series : \A x \in series : x.amount <= m.amount}

\* sort_values(ascending=False) with the default kind='quicksort', which is
\* not a stable sort: entries come in descending amount, and the order of
\* entries of equal amount is whatever the installed pandas and numpy give.
\* The set of all the orders a build can give.
RECURSIVE sort_values_descending(_)
sort_values_after(series, m) ==
  {<<m>> \o q : q \in sort_values_descending(series \ {m})}

sort_values_descending(series) ==
  IF series = {} THEN {<< >>}
  ELSE UNION {sort_values_after(series, m) : m \in largest(series)}

\* head that keeps one entry more.
head_one_more(s, n) == SubSeq(s, 1, IF Len(s) < n + 1 THEN Len(s) ELSE n + 1)

\* Series.head(n)
head(s, n) == SubSeq(s, 1, IF Len(s) < n THEN Len(s) ELSE n)

\* The value of the column at category c, NaN filled with 0.
fillna(s, c) ==
  IF \E i \in 1..Len(s) : s[i].category = c
  THEN s[CHOOSE i \in 1..Len(s) : s[i].category = c].amount
  ELSE 0

index_of(s) == [i \in 1..Len(s) |-> s[i].category]

\* The row labels of pd.concat(axis=1): those of the first Series, then the
\* labels only the second has.
concat_index(income, expense) ==
  index_of(income)
    \o SelectSeq(index_of(expense),
                 LAMBDA c : \A i \in 1..Len(income) : income[i].category # c)

concat_rows(index, income, expense) ==
  [i \in 1..Len(index) |->
     [category |-> index[i], Income |-> fillna(income, index[i]),
      Expense |-> fillna(expense, index[i])]]

\* pd.concat([income.rename('Income'), expense.rename('Expense')],
\*           axis=1).fillna(0), kept with the two Series it was built from.
concat(income, expense) ==
  [income_summary |-> income, expense_summary |-> expense,
   plot_data |-> concat_rows(concat_index(income, expense), income, expense)]

\* plot_category_summary: the frames the bars can be drawn from.
plot_category_summary(df) ==
  {concat(head(i, top_n), head(e, top_n)) :
     i \in sort_values_descending(groupby_sum(df, "Income")),
     e \in sort_values_descending(groupby_sum(df, "Expense"))}

\* update_plots on an empty DataFrame clears the charts and draws none.
no_category_summary ==
  [income_summary |-> << >>, expense_summary |-> << >>, plot_data |-> << >>]

\* update_plots, after the DataFrame is prepared
category_chart(df) ==
  IF df = << >> THEN {no_category_summary} ELSE plot_category_summary(df)


----------------------------------------------------------------------------
\* Handlers

\* FinanceApp.__init__ on a database file holding st: the filter variables
\* start empty, the summary is computed while the panels are built, then the
\* table and the charts are loaded.
Startup(st) ==
  /\ filter_start_date' = ""
  /\ filter_end_date' = ""
  /\ filter_type' = "All"
  /\ summary_labels' = calculate_summary_stats(st, "", "", "All")
  /\ tree' = load_transactions(st, "", "", "All", << >>).tree
  /\ chart' = update_plots(st, "", "", "All")
  /\ category_summary' \in category_chart(chart')
  /\ messagebox' = << >>
  /\ last' = [name |-> "__init__", listed |-> TRUE, plotted |-> TRUE]

Init ==
  /\ store = {}
  /\ inserted = 0
  /\ issued = << >>
  /\ deleted = {}
  /\ filter_start_date = ""
  /\ filter_end_date = ""
  /\ filter_type = "All"
  /\ summary_labels = calculate_summary_stats({}, "", "", "All")
  /\ tree = load_transactions({}, "", "", "All", << >>).tree
  /\ chart = update_plots({}, "", "", "All")
  /\ category_summary \in category_chart(chart)
  /\ messagebox = << >>
  /\ last = [name |-> "__init__", listed |-> TRUE, plotted |-> TRUE]

\* The application is closed and started again on the same database file.
restart ==
  /\ Startup(store)
  /\ UNCHANGED <<store, inserted, issued, deleted>>

\* update_plots(); calculate_summary_stats() after load_transactions() gave lt
Refreshed(name, lt, st, start_date, end_date, trans_type, shown) ==
  /\ tree' = lt.tree
  /\ chart' = update_plots(st, start_date, end_date, trans_type)
  /\ category_summary' \in category_chart(chart')
  /\ summary_labels' =
       calculate_summary_stats(st, start_date, end_date, trans_type)
  /\ messagebox' = shown \o lt.messages
  /\ last' = [name |-> name, listed |-> lt.listed, plotted |-> TRUE]

\* load_transactions(); update_plots(); calculate_summary_stats()
Refresh(name, st, start_date, end_date, trans_type, shown) ==
  Refreshed(name, load_transactions(st, start_date, end_date, trans_type, tree),
            st, start_date, end_date, trans_type, shown)

\* The user leaves start_text, end_text and type_choice in the filter fields
\* and presses "Apply Filters".  (Text typed without pressing the button is
\* seen by the next handler exactly as if it had been applied before it.)
apply_filters(start_text, end_text, type_choice) ==
  /\ filter_start_date' = start_text
  /\ filter_end_date' = end_text
  /\ filter_type' = type_choice
  /\ Refresh("apply_filters", store, start_text, end_text, type_choice, << >>)
  /\ UNCHANGED <<store, inserted, issued, deleted>>

reset_filters ==
  /\ filter_start_date' = ""
  /\ filter_end_date' = ""
  /\ filter_type' = "All"
  /\ Refresh("reset_filters", store, "", "", "All", << >>)
  /\ UNCHANGED <<store, inserted, issued, deleted>>

\* input_error with the amount test written "amount < 0".
input_error_zero_allowed(date_str, category, amount_text) ==
  \/ ~float(amount_text).ok
  \/ ~strptime(date_str).ok
  \/ float(amount_text).value < 0
  \/ category = ""

\* The tests of add_transaction_handler that raise ValueError: float() of
\* the amount entry, strptime of the date entry, amount <= 0, not category.
input_error(date_str, category, amount_text) ==
  \/ ~float(amount_text).ok
  \/ ~strptime(date_str).ok
  \/ float(amount_text).value <= 0
  \/ category = ""

add_transaction_handler(date_str, transaction_type, category, amount_text, description) ==
  IF input_error(date_str, category, amount_text)
  THEN /\ messagebox' = <<"Input Error">>
       /\ last' = [name |-> "add_transaction_handler",
                   listed |-> FALSE, plotted |-> FALSE]
       /\ UNCHANGED <<store, inserted, issued, deleted, filter_start_date,
                      filter_end_date, filter_type, tree, chart,
                      category_summary, summary_labels>>
  ELSE /\ inserted < MaxInserts
       /\ store' = add_transaction(store, date_str, transaction_type, category,
                                   float(amount_text).value, description,
                                   inserted + 1)
       /\ inserted' = inserted + 1
       /\ issued' = Append(issued, NewRowId(store))
       /\ Refresh("add_transaction_handler", store', filter_start_date,
                  filter_end_date, filter_type, <<"Success">>)
       /\ UNCHANGED <<deleted, filter_start_date, filter_end_date,
                      filter_type>>

\* selected is the position of the selected Treeview row, 0 for none;
\* confirm is the answer to the "Confirm Deletion" question.
delete_selected_transaction(selected, confirm) ==
  IF selected = 0
  THEN /\ messagebox' = <<"Selection Error">>
       /\ last' = [name |-> "delete_selected_transaction",
                   listed |-> FALSE, plotted |-> FALSE]
       /\ UNCHANGED <<store, inserted, issued, deleted, filter_start_date,
                      filter_end_date, filter_type, tree, chart,
                      category_summary, summary_labels>>
  ELSE IF ~confirm
  THEN /\ messagebox' = <<"Confirm Deletion">>
       /\ last' = [name |-> "delete_selected_transaction",
                   listed |-> FALSE, plotted |-> FALSE]
       /\ UNCHANGED <<store, inserted, issued, deleted, filter_start_date,
                      filter_end_date, filter_type, tree, chart,
                      category_summary, summary_labels>>
  ELSE /\ store' = delete_transaction(store, tree[selected].id)
       /\ deleted' = deleted \cup
                       {r.uid : r \in {q \in store : q.id = tree[selected].id}}
       /\ Refresh("delete_selected_transaction", store', filter_start_date,
                  filter_end_date, filter_type,
                  <<"Confirm Deletion", "Success">>)
       /\ UNCHANGED <<inserted, issued, filter_start_date, filter_end_date,
                      filter_type>>

Next ==
  \/ restart
  \/ \E f \in FilterInputs : apply_filters(f[1], f[2], f[3])
  \/ reset_filters
  \/ \E in \in FormInputs :
       add_transaction_handler(date_of(in), type_of(in), category_of(in),
                               amount_of(in), description_of(in))
  \/ \E i \in 0..Len(tree), yes \in BOOLEAN :
       delete_selected_transaction(i, yes)

Spec == Init /\ [][Next]_vars

----------------------------------------------------------------------------
\* The category summary as a function of the DataFrame it is given

\* Rows a DataFrame can hold: six Expense categories with 100 each, a second
\* Rent expense, and an Income under Salary and under Rent.
CategoryRows ==
  << [type |-> "Expense", category |-> "Rent", amount |-> 100],
     [type |-> "Expense", category |-> "Groceries", amount |-> 100],
     [type |-> "Expense", category |-> "Utilities", amount |-> 100],
     [type |-> "Expense", category |-> "Transportation", amount |-> 100],
     [type |-> "Expense", category |-> "Entertainment", amount |-> 100],
     [type |-> "Expense", category |-> "Savings", amount |-> 100],
     [type |-> "Expense", category |-> "Rent", amount |-> 400],
     [type |-> "Income", category |-> "Salary", amount |-> 400],
     [type |-> "Income", category |-> "Rent", amount |-> 100] >>

\* The rows numbered in S, in ascending or in descending order of number.
RECURSIVE Listed(_, _)
ListedFrom(S, ascending, n) ==
  <<CategoryRows[n]>> \o Listed(S \ {n}, ascending)

Listed(S, ascending) ==
  IF S = {} THEN << >>
  ELSE ListedFrom(S, ascending,
                  CHOOSE n \in S :
                    \A m \in S : IF ascending THEN n <= m ELSE n >= m)

CategoryFrames ==
  {Listed(S, up) : S \in SUBSET (1..Len(CategoryRows)), up \in BOOLEAN}

\* _prepare_data_for_plots has returned df to update_plots.
InitCategory ==
  /\ store = {}
  /\ inserted = 0
  /\ issued = << >>
  /\ deleted = {}
  /\ filter_start_date = ""
  /\ filter_end_date = ""
  /\ filter_type = "All"
  /\ summary_labels = summary_stats(0, 0)
  /\ tree = << >>
  /\ chart \in CategoryFrames
  /\ category_summary = no_category_summary
  /\ messagebox = << >>
  /\ last = [name |-> "_prepare_data_for_plots", listed |-> FALSE,
             plotted |-> FALSE]

\* update_plots goes on with the DataFrame and draws the charts.
draw_charts ==
  /\ last.name = "_prepare_data_for_plots"
  /\ category_summary' \in category_chart(chart)
  /\ last' = [name |-> "update_plots", listed |-> FALSE, plotted |-> TRUE]
  /\ UNCHANGED <<store, inserted, issued, deleted, filter_start_date,
                 filter_end_date, filter_type, tree, chart, summary_labels,
                 messagebox>>

NextCategory == draw_charts

SpecCategory == InitCategory /\ [][NextCategory]_vars

----------------------------------------------------------------------------
\* Properties

Range(q) == {q[i] : i \in 1..Len(q)}

\* The calendar day a date text denotes.
Day(s) == strptime(s).ordinal

QueryDates == {"", "2024-9-30", "2024-10-01"}
QueryTypes == {"", "All", "Income", "Expense"}
QueryCategories == {"", "All", "Salary", "Rent"}

RECURSIVE SumOf(_, _)
SumOfFrom(S, type, r) ==
  (IF r.type = type THEN r.amount ELSE 0) + SumOf(S \ {r}, type)

SumOf(S, type) ==
  IF S = {} THEN 0 ELSE SumOfFrom(S, type, CHOOSE x \in S : TRUE)

SummaryOf(S) ==
  [total_income |-> SumOf(S, "Income"), total_expense |-> SumOf(S, "Expense"),
   net_worth |-> SumOf(S, "Income") - SumOf(S, "Expense")]

\* The stored transactions that meet the criteria, dates compared as
\* calendar dates.
Matches(s, e, k, c) ==
  {r \in store :
     /\ s # "" => Day(r.date) >= Day(s)
     /\ e # "" => Day(r.date) <= Day(e)
     /\ k \notin {"", "All"} => r.type = k
     /\ c \notin {"", "All"} => r.category = c}

NoRepeats(q) == Len(q) = Cardinality(Range(q))

\* C1: for every store and every filter the query returns exactly the stored
\* transactions whose calendar date is on or after start_date and on or
\* before end_date, whose type is kind and whose category is category, where
\* an absent, empty or 'All' criterion restricts nothing.
C1_QueryReturnsExactlyTheMatches ==
  \A s \in QueryDates, e \in QueryDates, k \in QueryTypes,
     c \in QueryCategories :
    /\ NoRepeats(get_all_transactions(store, s, e, k, c))
    /\ Range(get_all_transactions(store, s, e, k, c)) = Matches(s, e, k, c)

CalendarOrdered(q) ==
  \A i \in 1..Len(q), j \in 1..Len(q) :
    i < j =>
      \/ Day(q[i].date) < Day(q[j].date)
      \/ /\ Day(q[i].date) = Day(q[j].date)
         /\ q[i].id < q[j].id
         /\ q[i].uid < q[j].uid

\* C2: in every reachable store the query result is ordered by calendar date
\* ascending, and transactions of one date by id ascending, which is their
\* insertion order.
C2_QueryOrderedByCalendarDate ==
  \A s \in QueryDates, e \in QueryDates, k \in QueryTypes :
    CalendarOrdered(get_all_transactions(store, s, e, k, ""))

PointsFollow(tx, df) ==
  /\ Len(df) = Len(tx)
  /\ \A i \in 1..Len(df) :
       /\ df[i].id = tx[i].id
       /\ df[i].signed_amount =
            (IF tx[i].type = "Income" THEN tx[i].amount ELSE 0 - tx[i].amount)
       /\ df[i].running_balance =
            (IF i = 1 THEN 0 ELSE df[i - 1].running_balance)
              + df[i].signed_amount

\* C3: _prepare_data_for_plots yields one point per queried transaction, in
\* the order of the query, with signed_amount = amount for Income and
\* -amount for Expense and running_balance the running sum of the signed
\* amounts starting from 0.
C3_RunningBalanceInQueryOrder ==
  \A f \in FilterInputs, for_plots \in BOOLEAN :
    PointsFollow(plot_transactions(store, f[1], f[2], f[3], for_plots),
                 prepare_data_for_plots(store, f[1], f[2], f[3], for_plots))

\* C4: at startup and after every handler the summary labels show the total
\* of all stored Income amounts, the total of all stored Expense amounts and
\* their difference, over the whole store whatever the filter fields hold.
C4_SummaryOverWholeStore == summary_labels = SummaryOf(store)

C4_Witness ==
  /\ last.name = "delete_selected_transaction"
  /\ last.plotted
  /\ filter_type = "Income"
  /\ summary_labels.total_expense > 0

\* C5: every id assigned by an insert is positive and differs from every id
\* assigned by another insert, deleted or not.
C5_IdsNeverReused ==
  \A i \in 1..Len(issued), j \in 1..Len(issued) :
    issued[i] > 0 /\ (i # j => issued[i] # issued[j])

\* An amount <= 0, an empty category or a date that does not parse.
InvalidForm(in) ==
  \/ float(amount_of(in)).ok /\ float(amount_of(in)).value <= 0
  \/ category_of(in) = ""
  \/ ~strptime(date_of(in)).ok

Added(in) ==
  add_transaction_handler(date_of(in), type_of(in), category_of(in),
                          amount_of(in), description_of(in))

\* C6: add_transaction_handler with an amount <= 0, an empty category or a
\* date that does not parse shows "Input Error" and inserts nothing, and
\* every stored transaction has amount > 0.  (Stated per step: a run of the
\* handler either showed "Input Error" and left the store alone, or none of
\* the form contents it can have run with is invalid.)
C6_InvalidInputRejected ==
  /\ [][last'.name = "add_transaction_handler" =>
          \/ /\ messagebox' = <<"Input Error">>
             /\ store' = store
             /\ issued' = issued
          \/ \A in \in FormInputs : Added(in) => ~InvalidForm(in)]_vars
  /\ [](\A r \in store : r.amount > 0)

C6_Witness ==
  /\ last.name = "add_transaction_handler"
  /\ messagebox = <<"Input Error">>
  /\ store # {}

\* C7: delete_transaction with an id that is not in the store does not
\* report success and leaves the store unchanged.
C7_DeleteOfMissingIdFails ==
  [][\A i \in 1..Len(tree) :
       ( /\ tree[i].id \notin {r.id : r \in store}
         /\ delete_selected_transaction(i, TRUE) )
       => /\ "Success" \notin Range(messagebox')
          /\ store' = store]_vars

BadCriteria(start_date, end_date) ==
  \/ start_date # "" /\ ~strptime(start_date).ok
  \/ end_date # "" /\ ~strptime(end_date).ok
  \/ /\ start_date # "" /\ strptime(start_date).ok
     /\ end_date # "" /\ strptime(end_date).ok
     /\ Day(start_date) > Day(end_date)

\* C8: applying filters with a malformed start or end date, or with
\* start_date later than end_date, shows "Filter Error" and computes no
\* listing and no chart data.
C8_BadFiltersRejected ==
  (last.name = "apply_filters" /\ BadCriteria(filter_start_date, filter_end_date))
    => /\ "Filter Error" \in Range(messagebox)
       /\ ~last.listed
       /\ ~last.plotted

\* C9: a deleted transaction is returned by no later query, whatever the
\* filter, and is counted in no later chart data or summary figure.
C9_DeletedStaysGone ==
  /\ \A s \in QueryDates, e \in QueryDates, k \in FilterTypes :
       \A r \in Range(get_all_transactions(store, s, e, k, "")) :
         r.uid \notin deleted
  /\ \A c \in {"Salary", "Rent"} :
       \A r \in Range(get_all_transactions(store, "", "", "", c)) :
         r.uid \notin deleted
  /\ \A i \in 1..Len(chart) : chart[i].uid \notin deleted
  /\ summary_labels = SummaryOf({r \in store : r.uid \notin deleted})

C9_Witness ==
  /\ deleted # {}
  /\ last.name = "add_transaction_handler"
  /\ \E r \in store : r.uid = 2 /\ r.id = 1
  /\ chart # << >>

\* The entry has the field values of the form content and the given id.
IsInserted(r, in, id) ==
  /\ r.date = date_of(in) /\ r.type = type_of(in)
  /\ r.category = category_of(in)
  /\ r.amount = float(amount_of(in)).value
  /\ r.description = description_of(in)
  /\ r.id = id

\* The query with the inserted date as both bounds, its kind and category.
RoundTrip(st, in) ==
  get_all_transactions(st, date_of(in), date_of(in), type_of(in),
                       category_of(in))

ExactlyOne(q, in, id) == Len(q) = 1 /\ IsInserted(q[1], in, id)

\* C10 as stated: after a transaction is inserted, the query with its date
\* as both bounds, its kind and its category returns exactly one entry; it
\* has the inserted date, kind, category, amount and description and the id
\* the store assigned.
C10_RoundTripExactlyOne ==
  [][(last'.name = "add_transaction_handler" /\ store' # store) =>
       \A in \in FormInputs :
         Added(in) =>
           ExactlyOne(RoundTrip(store', in), in, issued'[Len(issued')])]_vars

\* The transactions stored before with the date text, kind and category of
\* the form content.
Alike(in) ==
  {r \in store : /\ r.date = date_of(in) /\ r.type = type_of(in)
                 /\ r.category = category_of(in)}

AlikeThenInserted(q, in, id) ==
  /\ Len(q) = Cardinality(Alike(in)) + 1
  /\ \A i \in 1..(Len(q) - 1) : q[i] \in Alike(in) /\ q[i].id < q[i + 1].id
  /\ IsInserted(q[Len(q)], in, id)
  /\ q[Len(q)] \notin store

\* C10 amended: the query returns, in id order, the stored transactions with
\* the inserted date text, kind and category; the last of them, and only
\* that one, has the id the store assigned, and its date, kind, category,
\* amount and description are the inserted values; it is the only entry
\* when no transaction stored before had the same date text, kind and
\* category.
C10_RoundTripReturnsInserted ==
  [][(last'.name = "add_transaction_handler" /\ store' # store) =>
       \A in \in FormInputs :
         Added(in) =>
           AlikeThenInserted(RoundTrip(store', in), in,
                             issued'[Len(issued')])]_vars

C10_Witness ==
  /\ last.name = "add_transaction_handler"
  /\ "Success" \in Range(messagebox)
  /\ \E r \in store, p \in store :
       /\ r.uid = inserted /\ p.uid # r.uid
       /\ p.date = r.date /\ p.type = r.type /\ p.category = r.category
       /\ p.amount # r.amount

\* The positions of the rows of df with the type and the category.
RowsOf(df, type, c) ==
  {i \in 1..Len(df) : df[i].type = type /\ df[i].category = c}

RECURSIVE AmountAt(_, _)
AmountAtFrom(df, I, i) == df[i].amount + AmountAt(df, I \ {i})

AmountAt(df, I) ==
  IF I = {} THEN 0 ELSE AmountAtFrom(df, I, CHOOSE i \in I : TRUE)

\* The sum of the amounts of the type in category c.
Total(df, type, c) == AmountAt(df, RowsOf(df, type, c))

\* The categories with a transaction of the type.
Contributing(df, type) ==
  {df[i].category : i \in {j \in 1..Len(df) : df[j].type = type}}

\* T is a set of the 5 categories with the largest sums of the type (all of
\* them when there are fewer than 5).
IsTop5(T, df, type) ==
  /\ T \subseteq Contributing(df, type)
  /\ Cardinality(T) = (IF Cardinality(Contributing(df, type)) < 5
                       THEN Cardinality(Contributing(df, type)) ELSE 5)
  /\ \A c \in T, d \in Contributing(df, type) \ T :
       Total(df, type, c) >= Total(df, type, d)

\* The summary lists the union of TI and TE with the totals of the claim.
ListsUnion(summary, df, TI, TE) ==
  /\ {summary[i].category : i \in 1..Len(summary)} = TI \cup TE
  /\ Len(summary) = Cardinality(TI \cup TE)
  /\ \A i \in 1..Len(summary) :
       /\ summary[i].Income = (IF summary[i].category \in TI
                               THEN Total(df, "Income", summary[i].category)
                               ELSE 0)
       /\ summary[i].Expense = (IF summary[i].category \in TE
                                THEN Total(df, "Expense", summary[i].category)
                                ELSE 0)

\* C11: for every transaction sequence the category summary lists exactly
\* the union of 5 categories with the largest Income sums and 5 categories
\* with the largest Expense sums; a category of the top income set carries
\* the sum of its Income amounts, one of the top expense set the sum of its
\* Expense amounts, and a category in only one of the sets has 0 as its
\* other total; a category without a contributing transaction never
\* appears, and the empty sequence gives the empty summary.
C11_SummaryIsUnionOfTop5 ==
  last.name = "update_plots" =>
    /\ \E TI \in SUBSET Contributing(chart, "Income"),
          TE \in SUBSET Contributing(chart, "Expense") :
         /\ IsTop5(TI, chart, "Income")
         /\ IsTop5(TE, chart, "Expense")
         /\ ListsUnion(category_summary.plot_data, chart, TI, TE)
    /\ chart = << >> => category_summary.plot_data = << >>

\* Six Expense categories contribute, and a category with Income and
\* Expense amounts is listed with its Income sum and 0 as Expense total.
C11_Witness ==
  /\ last.name = "update_plots"
  /\ Cardinality(Contributing(chart, "Expense")) = 6
  /\ \E i \in 1..Len(category_summary.plot_data) :
       /\ category_summary.plot_data[i].Income > 0
       /\ category_summary.plot_data[i].Expense = 0
       /\ category_summary.plot_data[i].category
            \in Contributing(chart, "Expense")

\* The position of the first row of df with the type and the category.
FirstSeen(df, type, c) ==
  CHOOSE i \in RowsOf(df, type, c) : \A j \in RowsOf(df, type, c) : i <= j

\* The ranking keeps categories of equal sum in the order they were first
\* encountered in df, and a category left out never ties with a retained
\* one encountered after it.
TiesInEncounterOrder(ranking, df, type) ==
  /\ \A i \in 1..Len(ranking), j \in 1..Len(ranking) :
       (i < j /\ ranking[i].amount = ranking[j].amount) =>
         FirstSeen(df, type, ranking[i].category)
           < FirstSeen(df, type, ranking[j].category)
  /\ \A i \in 1..Len(ranking) :
       \A d \in Contributing(df, type) \ {ranking[j].category :
                                             j \in 1..Len(ranking)} :
         Total(df, type, d) = ranking[i].amount =>
           FirstSeen(df, type, ranking[i].category) < FirstSeen(df, type, d)

\* C12: categories that tie on summed amount in the income ranking or in
\* the expense ranking of the category summary keep the relative order in
\* which they were first encountered in the input sequence; when a tie
\* straddles the top-5 cutoff, the tied category encountered first is the
\* one retained.
C12_TiesKeepEncounterOrder ==
  last.name = "update_plots" =>
    /\ TiesInEncounterOrder(category_summary.income_summary, chart, "Income")
    /\ TiesInEncounterOrder(category_summary.expense_summary, chart, "Expense")

\* The handler ran to its end: it reloaded the table and the charts.
Completed ==
  /\ last.name \in {"add_transaction_handler", "delete_selected_transaction",
                    "apply_filters", "reset_filters"}
  /\ last.plotted

\* The table row shows a transaction that is in the store.
ShowsStored(row) ==
  \E r \in store :
    /\ r.uid = row.uid /\ r.id = row.id /\ r.date = row.date
    /\ r.type = row.type /\ r.category = row.category
    /\ r.description = row.description
    /\ formatted_amount(r.amount) = row.amount

\* C13: after every completed add_transaction_handler,
\* delete_selected_transaction, apply_filters or reset_filters, whatever the
\* filter fields hold, every row of the table shows a transaction that is
\* in the store, and the table lists the transactions selected by the
\* criteria the charts of the same operation were drawn from.
C13_TableFollowsStoreAndCharts ==
  Completed =>
    /\ \A i \in 1..Len(tree) : ShowsStored(tree[i])
    /\ {tree[i].uid : i \in 1..Len(tree)} = {chart[i].uid : i \in 1..Len(chart)}

====
